---------------------------- MODULE Spec2Model ----------------------------
(***************************************************************************)
(* The authenticated HTTP client of the frontend boilerplate (token        *)
(* variant): the request interceptor, the response interceptor with its    *)
(* token-refresh coordination (isRefreshing, failedQueue, processQueue),   *)
(* the session store and the login / logout flows that call through it,    *)
(* AuthProvider's initialisation at process start, and the chat hook       *)
(* (useChatClient) with its idle timer and visibility handling.            *)
(*                                                                         *)
(* JavaScript runs one task at a time.  A task is modelled as a sequence   *)
(* of steps: pc names the position inside the running response handler,    *)
(* micro holds the promise reactions that run before the next task, and    *)
(* a new task (a response arriving, a user action) starts only when both   *)
(* are exhausted (Idle).                                                   *)
(***************************************************************************)
EXTENDS Integers, Sequences, FiniteSets

\* ------------------------------------------------------------------ bounds
NData == 3          \* data requests issued through the client
NSession == 1       \* data requests issued beside a login and a logout
MaxTok == 3         \* access tokens the server issues
IdleTicks == 3      \* IDLE_TIMEOUT_MS, counted in ticks of the clock

\* --------------------------------------------------------------- constants
NoToken == 0        \* localStorage.getItem(...) === null
FirstTok == 1       \* the access token persisted by an earlier session
RefreshTok == 1     \* some refresh token (only its presence is ever read)
NoHeader == 0       \* no Authorization header on the request config
EmptyHeader == -1   \* Authorization: ''

Data == 1..NData
SessionData == 1..NSession
LoginSlot == NData + 1
LogoutSlot == NData + 2
ProbeSlot == NData + 3
Slots == 1..(NData + 3)
NoSlot == 0

ErrorStatus == {401, 403, 500}

\* error.response.data.detail: absent, or the text the server provided (it is
\* read at line 143 only, so only the responses that reach it carry one)
NoDetail == ""
Details == {NoDetail, "detail"}
\* error.message as axios sets it for a response outside 2xx
AxiosMessage == "Request failed with status code"

NoToast == "none"
NoError == [r |-> NoSlot, call |-> "none", status |-> 0, detail |-> NoDetail]

\* The permissions the application grants (use-login.ts) and routes require.
Permissions == {"users:read", "users:write", "users:delete"}
Users == {"none", "admin", "plain"}
NoRoute == [requiredPermissions |-> {}, renders |-> "none"]
NoCall == [op |-> "none", user |-> "none", permissions |-> {}]
NoTimer == -1       \* no idle timer is pending
\* The events of the activity effect (use-chat-client.ts line 115)
Events == {"mousedown", "keydown", "scroll", "touchstart"}

\* useChatClient before it is mounted, in a visible tab.
NoChat ==
    [mounted |-> "no",             \* "no", "yes", "gone" (unmounted)
     hidden |-> FALSE,             \* document.hidden
     clientRef |-> FALSE,          \* clientRef.current holds the StreamChat object
     userID |-> FALSE,             \* the StreamChat object's userID is set
     conn |-> "closed",            \* its connection: "closed", "connecting", "open"
     staleConnects |-> 0,          \* connectUser promises pending for an attempt
                                   \* that disconnectUser has superseded
     disconnects |-> 0,            \* disconnect() calls awaiting disconnectUser
     idleTimer |-> NoTimer,        \* ticks left on the pending idle timer
     isDisconnectedRef |-> FALSE,
     client |-> FALSE,             \* const [client, setClient]: non-null
     isConnecting |-> FALSE,
     connectionError |-> FALSE,
     sinceActivity |-> 0,          \* history: ticks since the last activity event
     hiddenFor |-> 0]              \* history: ticks since the tab was hidden

\* No login attempt has started.
NoAttempt ==
    [localStorage |-> [access_token |-> NoToken, refresh_token |-> NoToken],
     store |-> [user |-> "none", permissions |-> {}, isAuthenticated |-> FALSE]]

VARIABLES
    isRefreshing,   \* interceptors.ts: let isRefreshing
    failedQueue,    \* interceptors.ts: let failedQueue
    localStorage,   \* access_token, refresh_token
    req,            \* the requests issued through apiClient, one per caller
                    \* (auth: the header of the live config, none once settled)
    refresh,        \* the POST /v1/auth/refresh call of each trigger
    response,       \* the handler's local: the refresh response (line 96)
    pc,             \* position of the running response handler
    cur,            \* the request whose handler is running
    micro,          \* promise reactions pending in this task
    store,          \* zustand auth slice
    location,       \* window.location / router location
    nextTok,        \* next token the server will issue
    refreshCalls,   \* history: number of refresh calls issued so far
    lastRefresh,    \* history: access token of the last 2xx refresh response
    axiosError,     \* the error response whose handler ran in this step (line 52)
    toast,          \* the message of the toast shown in this step
    route,          \* the mounted ProtectedRoute: its requirement and what it renders
    storeCall,      \* the store operation a caller invoked in this step
    isLoading,      \* AuthProvider: const [isLoading, setIsLoading]
    before,         \* history: localStorage and store when the login attempt started
    chat            \* useChatClient and the StreamChat object it drives

chatVars == <<chat>>

vars == <<isRefreshing, failedQueue, localStorage, req, refresh, response, pc, cur,
          micro, store, location, nextTok, refreshCalls, lastRefresh,
          axiosError, toast, route, storeCall, isLoading, before, chatVars>>

\* ----------------------------------------------------------- pure helpers

\* url.includes('/auth/')
IsAuthEndpoint(url) == url \in {"login", "logout", "refresh"}

\* Mutant of RequestInterceptor: the persisted token is not read.
RequestInterceptorKeep(ls, auth) == auth

\* Request interceptor: sets Authorization from the persisted access token,
\* leaves the config's header as it is when no token is persisted.
RequestInterceptor(ls, auth) ==
    IF ls.access_token # NoToken THEN ls.access_token ELSE auth

\* Mutant of Dispatch: the request goes out with the header its config already has.
DispatchStale(q, ls) == [q EXCEPT !.st = "sent"]

\* apiClient(config): run the request interceptor and put the request on the wire.
Dispatch(q, ls) ==
    [q EXCEPT !.st = "sent", !.auth = RequestInterceptor(ls, q.auth)]

\* A fresh request config for url.
NewRequest(url) ==
    [url |-> url, st |-> "new", retry |-> FALSE, auth |-> NoHeader, err |-> "none",
     calls |-> 0]

\* No refresh call exists for this request.
NoRefresh == [st |-> "none", auth |-> NoHeader]

\* No refresh response is held by a running handler.
NoResponse == [access_token |-> NoToken, refresh_token |-> NoToken]

\* Mutant of Qualifies: the status is not tested.
QualifiesAnyStatus(status, retry) == ~retry

\* Mutant of Qualifies: _retry is not tested.
QualifiesRetried(status, retry) == status = 401

\* line 63: error.response?.status === 401 && !originalRequest._retry
Qualifies(status, retry) == status = 401 /\ ~retry

\* Mutant of HasRefreshToken: the refresh token is not tested.
HasRefreshTokenAlways(ls) == TRUE

\* lines 84-86: the persisted refresh token is truthy
HasRefreshToken(ls) == ls.refresh_token # NoToken

\* Mutant of ErrorMessage: the server's detail is ignored.
ErrorMessageGeneric(detail, message) ==
    IF message # "" THEN message ELSE "An error occurred"

\* lines 142-145: detail || error.message || 'An error occurred'
ErrorMessage(detail, message) ==
    IF detail # NoDetail THEN detail
    ELSE IF message # "" THEN message ELSE "An error occurred"

\* lines 148-151: the toast is shown unless the status is 401 or the url is
\* an auth endpoint
ShowsToast(status, url) == status # 401 /\ ~IsAuthEndpoint(url)

\* Mutant of ShouldQueue: the flag is not consulted.
ShouldQueueNever == FALSE

\* line 66: if (isRefreshing)
ShouldQueue == isRefreshing

\* Mutant of MarkRetry: the request is not marked.
MarkRetryNot(q) == q

\* line 79: originalRequest._retry = true
MarkRetry(q) == [q EXCEPT !.retry = TRUE]

\* Mutant of ProcessQueue: the entries are settled but the queue is not emptied.
ProcessQueueKeep(queue, error) ==
    [settled |-> [i \in 1..Len(queue) |->
                    [k |-> IF error THEN "reject" ELSE "resolve",
                     r |-> queue[i].r, call |-> queue[i].call]],
     queue |-> queue]

\* Mutant of ProcessQueue: the entries are settled last to first.
ProcessQueueReversed(queue, error) ==
    [settled |-> [i \in 1..Len(queue) |->
                    [k |-> IF error THEN "reject" ELSE "resolve",
                     r |-> queue[Len(queue) + 1 - i].r,
                     call |-> queue[Len(queue) + 1 - i].call]],
     queue |-> <<>>]

\* processQueue(error): settle every entry, then failedQueue = []
ProcessQueue(queue, error) ==
    [settled |-> [i \in 1..Len(queue) |->
                    [k |-> IF error THEN "reject" ELSE "resolve",
                     r |-> queue[i].r, call |-> queue[i].call]],
     queue |-> <<>>]

\* The caller's code that runs when its request settles: nothing for a data
\* request (the result goes to the query cache), the mutation's continuation
\* for login and logout.
Continuation(r, url) ==
    IF url = "data" THEN <<>> ELSE <<[k |-> "cont", r |-> r, call |-> "orig"]>>

\* Mutant of SetUser: isAuthenticated is not updated.
SetUserKeep(s, user) == [s EXCEPT !.user = user]

\* authSlice
SetUser(s, user) == [s EXCEPT !.user = user, !.isAuthenticated = (user # "none")]
SetPermissions(s, permissions) == [s EXCEPT !.permissions = permissions]
Logout(s) == [user |-> "none", permissions |-> {}, isAuthenticated |-> FALSE]

\* use-login.ts (token variant) lines 34-39
PermissionsOf(user) ==
    IF user = "admin" THEN {"users:read", "users:write", "users:delete"} ELSE {}

\* use-permissions.ts: requiredPermissions.every(p => permissions.includes(p))
HasAllPermissions(s, requiredPermissions) ==
    \A p \in requiredPermissions : p \in s.permissions

\* Mutant of ProtectedRoute: the permissions are tested before the session.
ProtectedRoutePermissionsFirst(s, requiredPermissions) ==
    IF requiredPermissions # {} /\ ~HasAllPermissions(s, requiredPermissions)
      THEN "/unauthorized"
    ELSE IF ~s.isAuthenticated THEN "/login"
    ELSE "children"

\* ProtectedRoute: what the component renders for the session s
ProtectedRoute(s, requiredPermissions) ==
    IF ~s.isAuthenticated THEN "/login"
    ELSE IF requiredPermissions # {} /\ ~HasAllPermissions(s, requiredPermissions)
      THEN "/unauthorized"
    ELSE "children"

\* The mounted route subscribes to the store (useAuth): it renders again when
\* the store changes.
Rerender(rt, s) ==
    IF rt.renders = "none" THEN rt
    ELSE [rt EXCEPT !.renders = ProtectedRoute(s, rt.requiredPermissions)]

Idle == pc = "idle" /\ micro = <<>>

\* -------------------------------------------------------------------- Init

Started(loading) ==
    /\ isRefreshing = FALSE
    /\ failedQueue = <<>>
    /\ \E a \in {NoToken, FirstTok}, b \in {NoToken, RefreshTok} :
          localStorage = [access_token |-> a, refresh_token |-> b]
    /\ req = [r \in Slots |->
                NewRequest(IF r \in Data THEN "data"
                           ELSE IF r = LoginSlot THEN "login"
                           ELSE IF r = LogoutSlot THEN "logout" ELSE "me")]
    /\ refresh = [r \in Slots |-> NoRefresh]
    /\ response = NoResponse
    /\ pc = "idle"
    /\ cur = NoSlot
    /\ micro = <<>>
    /\ store = [user |-> "none", permissions |-> {}, isAuthenticated |-> FALSE]
    /\ location = "/"
    /\ nextTok = FirstTok + 1
    /\ refreshCalls = 0
    /\ lastRefresh = NoToken
    /\ axiosError = NoError
    /\ toast = NoToast
    /\ route = NoRoute
    /\ storeCall = NoCall
    /\ isLoading = loading
    /\ before = NoAttempt
    /\ chat = NoChat

\* The application with AuthProvider's initialisation behind it.
Init == Started(FALSE)

\* The process starts: AuthProvider has rendered its spinner (isLoading is
\* true) and its effect has not run yet.
ProviderInit == Started(TRUE)


\* ------------------------------------------------------------ user actions

\* A feature hook issues a request through apiClient.  The requests are
\* alike, so the slots are taken in order.
Send(r) ==
    /\ Idle
    /\ req[r].url = "data"
    /\ req[r].st = "new"
    /\ \A q \in 1..(r - 1) : req[q].st # "new"
    /\ req' = [req EXCEPT ![r] = Dispatch(@, localStorage)]
    /\ UNCHANGED <<isRefreshing, failedQueue, localStorage, refresh, response,
                   pc, cur, micro, store, location, nextTok, refreshCalls, lastRefresh>>
    /\ axiosError' = NoError /\ toast' = NoToast /\ UNCHANGED route
    /\ storeCall' = NoCall /\ UNCHANGED <<isLoading, before, chatVars>>

\* useLogin: mutationFn calls authApi.login(credentials).  The login form and
\* the logout button are on different pages: one session flow runs at a time.
StartLogin ==
    /\ Idle
    /\ req[LoginSlot].st = "new"
    /\ req[LogoutSlot].st \in {"new", "ok", "failed"}
    /\ req' = [req EXCEPT ![LoginSlot] = Dispatch(@, localStorage)]
    /\ UNCHANGED <<isRefreshing, failedQueue, localStorage, refresh, response,
                   pc, cur, micro, store, location, nextTok, refreshCalls, lastRefresh>>
    /\ axiosError' = NoError /\ toast' = NoToast /\ UNCHANGED route
    /\ storeCall' = NoCall /\ UNCHANGED <<isLoading, chatVars>>

\* useLogout: mutationFn calls authApi.logout()
StartLogout ==
    /\ Idle
    /\ req[LogoutSlot].st = "new"
    /\ req[LoginSlot].st \in {"new", "ok", "failed"}
    /\ req' = [req EXCEPT ![LogoutSlot] = Dispatch(@, localStorage)]
    /\ UNCHANGED <<isRefreshing, failedQueue, localStorage, refresh, response,
                   pc, cur, micro, store, location, nextTok, refreshCalls, lastRefresh>>
    /\ axiosError' = NoError /\ toast' = NoToast /\ UNCHANGED route
    /\ storeCall' = NoCall /\ UNCHANGED <<isLoading, before, chatVars>>

\* ------------------------------------------- responses to ordinary requests

\* Response interceptor, success handler (lines 49-51): the response is
\* returned unchanged to the caller.
RespondOk(r) ==
    /\ Idle
    /\ req[r].url = "data"
    /\ req[r].st = "sent"
    /\ req' = [req EXCEPT ![r].st = "ok", ![r].auth = NoHeader]
    /\ UNCHANGED <<isRefreshing, failedQueue, localStorage, refresh, response,
                   pc, cur, micro, store, location, nextTok, refreshCalls, lastRefresh>>
    /\ axiosError' = NoError /\ toast' = NoToast /\ UNCHANGED route
    /\ storeCall' = NoCall /\ UNCHANGED <<isLoading, before, chatVars>>

\* The login call succeeds; useLogin's mutationFn (lines 15-26) stores the
\* tokens of the response and fetches the current user.
LoginOk(r) ==
    /\ Idle
    /\ req[r].url = "login"
    /\ req[r].st = "sent"
    /\ nextTok <= MaxTok
    /\ \E withRefresh \in BOOLEAN :
          LET ls == [access_token |-> nextTok,
                     refresh_token |-> IF withRefresh THEN RefreshTok
                                       ELSE localStorage.refresh_token]
          IN /\ localStorage' = ls
             /\ req' = [req EXCEPT ![r] = Dispatch(NewRequest("me"), ls)]
    /\ nextTok' = nextTok + 1
    /\ UNCHANGED <<isRefreshing, failedQueue, refresh, response, pc, cur, micro,
                   store, location, refreshCalls, lastRefresh>>
    /\ axiosError' = NoError /\ toast' = NoToast /\ UNCHANGED route
    /\ storeCall' = NoCall /\ UNCHANGED <<isLoading, before, chatVars>>

\* The current-user call succeeds; useLogin's onSuccess (lines 30-43).
MeOk(r) ==
    /\ Idle
    /\ req[r].url = "me"
    /\ req[r].st = "sent"
    /\ \E user \in {"admin", "plain"} :
          store' = SetPermissions(SetUser(store, user), PermissionsOf(user))
    /\ req' = [req EXCEPT ![r].st = "ok", ![r].auth = NoHeader]
    /\ location' = "/"
    /\ UNCHANGED <<isRefreshing, failedQueue, localStorage, refresh, response,
                   pc, cur, micro, nextTok, refreshCalls, lastRefresh>>
    /\ axiosError' = NoError
    /\ toast' = "auth.loginSuccess"
    /\ route' = Rerender(route, store')
    /\ storeCall' = NoCall /\ UNCHANGED <<isLoading, before, chatVars>>

\* The logout call succeeds; useLogout's onSuccess (lines 15-25).
LogoutOk(r) ==
    /\ Idle
    /\ req[r].url = "logout"
    /\ req[r].st = "sent"
    /\ req' = [req EXCEPT ![r].st = "ok", ![r].auth = NoHeader]
    /\ localStorage' = [access_token |-> NoToken, refresh_token |-> NoToken]
    /\ store' = Logout(store)
    /\ location' = "/login"
    /\ UNCHANGED <<isRefreshing, failedQueue, refresh, response, pc, cur, micro,
                   nextTok, refreshCalls, lastRefresh>>
    /\ axiosError' = NoError
    /\ toast' = "auth.logoutSuccess"
    /\ route' = Rerender(route, store')
    /\ storeCall' = NoCall /\ UNCHANGED <<isLoading, before, chatVars>>

\* Response interceptor, error handler, lines 63-77: a 401 for a request not
\* yet retried, while a refresh is in progress, is parked in failedQueue.
Enqueue401(r) ==
    /\ Idle
    /\ req[r].st = "sent"
    /\ \E status \in ErrorStatus :
          /\ Qualifies(status, req[r].retry)
          /\ axiosError' = [r |-> r, call |-> "orig", status |-> status, detail |-> NoDetail]
    /\ ShouldQueue
    /\ failedQueue' = Append(failedQueue, [r |-> r, call |-> "orig"])
    /\ req' = [req EXCEPT ![r].st = "queued"]
    /\ UNCHANGED <<isRefreshing, localStorage, refresh, response, pc, cur, micro,
                   store, location, nextTok, refreshCalls, lastRefresh>>
    /\ toast' = NoToast
    /\ UNCHANGED route
    /\ storeCall' = NoCall /\ UNCHANGED <<isLoading, before, chatVars>>

\* Lines 79-104: the first 401 marks the request retried, sets the flag and,
\* when a refresh token is persisted, issues the refresh call (whose own
\* request passes the request interceptor); without one it throws into the
\* catch block.
Trigger401(r) ==
    /\ Idle
    /\ req[r].st = "sent"
    /\ \E status \in ErrorStatus :
          /\ Qualifies(status, req[r].retry)
          /\ axiosError' = [r |-> r, call |-> "orig", status |-> status, detail |-> NoDetail]
    /\ ~ShouldQueue
    /\ isRefreshing' = TRUE
    /\ IF ~HasRefreshToken(localStorage)
         THEN /\ req' = [req EXCEPT ![r] = [MarkRetry(@) EXCEPT !.st = "refreshing"]]
              /\ pc' = "catch"
              /\ cur' = r
              /\ UNCHANGED <<refresh, refreshCalls>>
         ELSE /\ req' = [req EXCEPT ![r] = [MarkRetry(@) EXCEPT
                            !.st = "refreshing", !.calls = @ + 1]]
              /\ refresh' = [refresh EXCEPT ![r] =
                    [st |-> "sent",
                     auth |-> RequestInterceptor(localStorage, EmptyHeader)]]
              /\ refreshCalls' = refreshCalls + 1
              /\ UNCHANGED <<pc, cur>>
    /\ UNCHANGED <<failedQueue, localStorage, response, micro, store, location,
                   nextTok, lastRefresh>>
    /\ toast' = NoToast
    /\ UNCHANGED route
    /\ storeCall' = NoCall /\ UNCHANGED <<isLoading, before, chatVars>>

\* Lines 136-155: every other failure (and a 401 for a request already
\* retried): 403 navigates to /unauthorized, a toast is shown unless the
\* status is 401 or the url is an auth endpoint, and the error is rejected.
Reject(r, status) ==
    /\ Idle
    /\ req[r].st = "sent"
    /\ status \in ErrorStatus
    /\ ~Qualifies(status, req[r].retry)
    /\ location' = IF status = 403 THEN "/unauthorized" ELSE location
    /\ \E detail \in Details :
          /\ axiosError' = [r |-> r, call |-> "orig", status |-> status, detail |-> detail]
          /\ toast' = IF ShowsToast(status, req[r].url)
                        THEN ErrorMessage(detail, AxiosMessage) ELSE NoToast
    /\ req' = [req EXCEPT ![r].st = "failed", ![r].err = "response",
                           ![r].auth = NoHeader]
    /\ micro' = Continuation(r, req[r].url)
    /\ UNCHANGED <<isRefreshing, failedQueue, localStorage, refresh, response,
                   pc, cur, store, nextTok, refreshCalls, lastRefresh>>
    /\ UNCHANGED route
    /\ storeCall' = NoCall /\ UNCHANGED <<isLoading, before, chatVars>>

\* ------------------------------------------- responses to the refresh call

\* The refresh call is answered 2xx with a RefreshResponse: the awaiting
\* handler continues at line 106.
RefreshOk(t) ==
    /\ Idle
    /\ refresh[t].st = "sent"
    /\ nextTok <= MaxTok
    /\ \E rotated \in BOOLEAN :
          response' = [access_token |-> nextTok,
                       refresh_token |-> IF rotated THEN RefreshTok ELSE NoToken]
    /\ refresh' = [refresh EXCEPT ![t].st = "ok"]
    /\ lastRefresh' = nextTok
    /\ nextTok' = nextTok + 1
    /\ pc' = "persist"
    /\ cur' = t
    /\ UNCHANGED <<isRefreshing, failedQueue, localStorage, req, micro, store,
                   location, refreshCalls>>
    /\ axiosError' = NoError /\ toast' = NoToast /\ UNCHANGED route
    /\ storeCall' = NoCall /\ UNCHANGED <<isLoading, before, chatVars>>

\* The refresh call is answered 401.  It went through apiClient, so the same
\* error handler runs for it: its config carries no _retry and isRefreshing
\* is true, so lines 66-77 park it in failedQueue.
RefreshUnauthorized(t) ==
    /\ Idle
    /\ refresh[t].st = "sent"
    /\ \E status \in ErrorStatus :
          /\ Qualifies(status, FALSE)
          /\ axiosError' = [r |-> t, call |-> "refresh", status |-> status, detail |-> NoDetail]
    /\ ShouldQueue
    /\ failedQueue' = Append(failedQueue, [r |-> t, call |-> "refresh"])
    /\ refresh' = [refresh EXCEPT ![t].st = "queued"]
    /\ UNCHANGED <<isRefreshing, localStorage, req, response, pc, cur, micro,
                   store, location, nextTok, refreshCalls, lastRefresh>>
    /\ toast' = NoToast
    /\ UNCHANGED route
    /\ storeCall' = NoCall /\ UNCHANGED <<isLoading, before, chatVars>>

\* The refresh call fails otherwise: lines 136-155 run for it (no toast, the
\* url is an auth endpoint), the rejection reaches the catch block (line 123).
RefreshError(t, status) ==
    /\ Idle
    /\ refresh[t].st = "sent"
    /\ status \in ErrorStatus
    /\ ~Qualifies(status, FALSE)
    /\ location' = IF status = 403 THEN "/unauthorized" ELSE location
    /\ \E detail \in Details :
          /\ axiosError' = [r |-> t, call |-> "refresh", status |-> status, detail |-> detail]
          /\ toast' = IF ShowsToast(status, "refresh")
                        THEN ErrorMessage(detail, AxiosMessage) ELSE NoToast
    /\ refresh' = [refresh EXCEPT ![t].st = "failed"]
    /\ pc' = "catch"
    /\ cur' = t
    /\ UNCHANGED <<isRefreshing, failedQueue, localStorage, req, response, micro,
                   store, nextTok, refreshCalls, lastRefresh>>
    /\ UNCHANGED route
    /\ storeCall' = NoCall /\ UNCHANGED <<isLoading, before, chatVars>>

\* --------------------------------------- the trigger's handler, step by step

\* Mutant of Persist: the new tokens are not written to localStorage.
PersistSkip ==
    /\ pc = "persist"
    /\ req' = [req EXCEPT ![cur].auth = IF response.access_token # NoToken
                                          THEN response.access_token ELSE @]
    /\ pc' = "drain"
    /\ UNCHANGED <<isRefreshing, failedQueue, localStorage, refresh, response, cur,
                   micro, store, location, nextTok, refreshCalls, lastRefresh>>
    /\ axiosError' = NoError /\ toast' = NoToast /\ UNCHANGED route
    /\ storeCall' = NoCall /\ UNCHANGED <<isLoading, before, chatVars>>

\* Lines 106-119
Persist ==
    /\ pc = "persist"
    /\ localStorage' =
          [access_token |-> IF response.access_token # NoToken
                              THEN response.access_token
                              ELSE localStorage.access_token,
           refresh_token |-> IF response.refresh_token # NoToken
                               THEN response.refresh_token
                               ELSE localStorage.refresh_token]
    /\ req' = [req EXCEPT ![cur].auth = IF response.access_token # NoToken
                                          THEN response.access_token ELSE @]
    /\ pc' = "drain"
    /\ UNCHANGED <<isRefreshing, failedQueue, refresh, response, cur, micro,
                   store, location, nextTok, refreshCalls, lastRefresh>>
    /\ axiosError' = NoError /\ toast' = NoToast /\ UNCHANGED route
    /\ storeCall' = NoCall /\ UNCHANGED <<isLoading, before, chatVars>>

\* Line 121: processQueue(null)
Drain ==
    /\ pc = "drain"
    /\ LET p == ProcessQueue(failedQueue, FALSE) IN
          /\ micro' = micro \o p.settled
          /\ failedQueue' = p.queue
    /\ pc' = "replay"
    /\ UNCHANGED <<isRefreshing, localStorage, req, refresh, response, cur, store,
                   location, nextTok, refreshCalls, lastRefresh>>
    /\ axiosError' = NoError /\ toast' = NoToast /\ UNCHANGED route
    /\ storeCall' = NoCall /\ UNCHANGED <<isLoading, before, chatVars>>

\* Line 122: return apiClient(originalRequest)
Replay ==
    /\ pc = "replay"
    /\ req' = [req EXCEPT ![cur] = Dispatch(@, localStorage)]
    /\ pc' = "finally"
    /\ UNCHANGED <<isRefreshing, failedQueue, localStorage, refresh, response,
                   cur, micro, store, location, nextTok, refreshCalls, lastRefresh>>
    /\ axiosError' = NoError /\ toast' = NoToast /\ UNCHANGED route
    /\ storeCall' = NoCall /\ UNCHANGED <<isLoading, before, chatVars>>

\* Line 125: processQueue(refreshError)
CatchDrain ==
    /\ pc = "catch"
    /\ LET p == ProcessQueue(failedQueue, TRUE) IN
          /\ micro' = micro \o p.settled
          /\ failedQueue' = p.queue
    /\ pc' = "erase"
    /\ UNCHANGED <<isRefreshing, localStorage, req, refresh, response, cur, store,
                   location, nextTok, refreshCalls, lastRefresh>>
    /\ axiosError' = NoError /\ toast' = NoToast /\ UNCHANGED route
    /\ storeCall' = NoCall /\ UNCHANGED <<isLoading, before, chatVars>>

\* Lines 127-128
CatchErase ==
    /\ pc = "erase"
    /\ localStorage' = [access_token |-> NoToken, refresh_token |-> NoToken]
    /\ pc' = "nav"
    /\ UNCHANGED <<isRefreshing, failedQueue, req, refresh, response, cur, micro,
                   store, location, nextTok, refreshCalls, lastRefresh>>
    /\ axiosError' = NoError /\ toast' = NoToast /\ UNCHANGED route
    /\ storeCall' = NoCall /\ UNCHANGED <<isLoading, before, chatVars>>

\* Lines 129-130
CatchNav ==
    /\ pc = "nav"
    /\ location' = "/login"
    /\ pc' = "finally"
    /\ UNCHANGED <<isRefreshing, failedQueue, localStorage, req, refresh,
                   response, cur, micro, store, nextTok, refreshCalls, lastRefresh>>
    /\ axiosError' = NoError /\ toast' = NoToast /\ UNCHANGED route
    /\ storeCall' = NoCall /\ UNCHANGED <<isLoading, before, chatVars>>

\* Line 132, then the handler returns: its locals are gone, and after the
\* catch block its promise rejects the trigger with the refresh error.
Finally ==
    /\ pc = "finally"
    /\ isRefreshing' = FALSE
    /\ IF req[cur].st = "refreshing"
         THEN /\ req' = [req EXCEPT ![cur].st = "failed", ![cur].auth = NoHeader,
                                     ![cur].err = IF refresh[cur].st = "none"
                                                    THEN "No refresh token available"
                                                    ELSE "refresh"]
              /\ micro' = micro \o Continuation(cur, req[cur].url)
         ELSE UNCHANGED <<req, micro>>
    /\ refresh' = [refresh EXCEPT ![cur] = NoRefresh]
    /\ response' = NoResponse
    /\ pc' = "idle"
    /\ cur' = NoSlot
    /\ UNCHANGED <<failedQueue, localStorage, store, location, nextTok,
                   refreshCalls, lastRefresh>>
    /\ axiosError' = NoError /\ toast' = NoToast /\ UNCHANGED route
    /\ storeCall' = NoCall /\ UNCHANGED <<isLoading, before, chatVars>>

\* ------------------------------------------------------- promise reactions

\* Mutant of MicroResolve: the reaction replays its request and stays pending.
MicroResolveKeep ==
    /\ pc = "idle"
    /\ micro # <<>>
    /\ Head(micro).k = "resolve"
    /\ LET e == Head(micro) IN
          IF e.call = "orig"
            THEN /\ req' = [req EXCEPT ![e.r] = Dispatch(@, localStorage)]
                 /\ UNCHANGED refresh
            ELSE /\ refresh' = [refresh EXCEPT ![e.r] =
                       [st |-> "sent",
                        auth |-> RequestInterceptor(localStorage, @.auth)]]
                 /\ UNCHANGED req
    /\ micro' = micro
    /\ UNCHANGED <<isRefreshing, failedQueue, localStorage, response, pc, cur,
                   store, location, nextTok, refreshCalls, lastRefresh>>
    /\ axiosError' = NoError /\ toast' = NoToast /\ UNCHANGED route
    /\ storeCall' = NoCall /\ UNCHANGED <<isLoading, before, chatVars>>

\* Lines 71-73: a resolved queue entry replays its request.
MicroResolve ==
    /\ pc = "idle"
    /\ micro # <<>>
    /\ Head(micro).k = "resolve"
    /\ LET e == Head(micro) IN
          IF e.call = "orig"
            THEN /\ req' = [req EXCEPT ![e.r] = Dispatch(@, localStorage)]
                 /\ UNCHANGED refresh
            ELSE /\ refresh' = [refresh EXCEPT ![e.r] =
                       [st |-> "sent",
                        auth |-> RequestInterceptor(localStorage, @.auth)]]
                 /\ UNCHANGED req
    /\ micro' = Tail(micro)
    /\ UNCHANGED <<isRefreshing, failedQueue, localStorage, response, pc, cur,
                   store, location, nextTok, refreshCalls, lastRefresh>>
    /\ axiosError' = NoError /\ toast' = NoToast /\ UNCHANGED route
    /\ storeCall' = NoCall /\ UNCHANGED <<isLoading, before, chatVars>>

\* Lines 74-76: a rejected queue entry rejects its caller with the refresh error.
MicroReject ==
    /\ pc = "idle"
    /\ micro # <<>>
    /\ Head(micro).k = "reject"
    /\ LET e == Head(micro) IN
          IF e.call = "orig"
            THEN /\ req' = [req EXCEPT ![e.r].st = "failed", ![e.r].err = "refresh",
                                       ![e.r].auth = NoHeader]
                 /\ micro' = Tail(micro) \o Continuation(e.r, req[e.r].url)
                 /\ UNCHANGED <<refresh, pc, cur>>
            ELSE /\ refresh' = [refresh EXCEPT ![e.r].st = "failed"]
                 /\ micro' = Tail(micro)
                 /\ pc' = "catch"
                 /\ cur' = e.r
                 /\ UNCHANGED req
    /\ UNCHANGED <<isRefreshing, failedQueue, localStorage, response, store,
                   location, nextTok, refreshCalls, lastRefresh>>
    /\ axiosError' = NoError /\ toast' = NoToast /\ UNCHANGED route
    /\ storeCall' = NoCall /\ UNCHANGED <<isLoading, before, chatVars>>

\* useLogin onError (lines 44-46): the login call or the current-user call failed.
LoginError ==
    /\ pc = "idle"
    /\ micro # <<>>
    /\ Head(micro).k = "cont"
    /\ req[Head(micro).r].url \in {"login", "me"}
    /\ micro' = Tail(micro)
    /\ UNCHANGED <<isRefreshing, failedQueue, localStorage, req, refresh,
                   response, pc, cur, store, location, nextTok, refreshCalls, lastRefresh>>
    /\ axiosError' = NoError
    /\ toast' = "auth.loginError"
    /\ UNCHANGED route
    /\ storeCall' = NoCall /\ UNCHANGED <<isLoading, before, chatVars>>

\* useLogout onError (lines 26-32): local state is cleared all the same.
LogoutError ==
    /\ pc = "idle"
    /\ micro # <<>>
    /\ Head(micro).k = "cont"
    /\ req[Head(micro).r].url = "logout"
    /\ localStorage' = [access_token |-> NoToken, refresh_token |-> NoToken]
    /\ store' = Logout(store)
    /\ location' = "/login"
    /\ micro' = Tail(micro)
    /\ UNCHANGED <<isRefreshing, failedQueue, req, refresh, response, pc, cur,
                   nextTok, refreshCalls, lastRefresh>>
    /\ axiosError' = NoError
    /\ toast' = NoToast
    /\ route' = Rerender(route, store')
    /\ storeCall' = NoCall /\ UNCHANGED <<isLoading, before, chatVars>>

\* ------------------------------------------------------------ AuthProvider

\* AuthProvider's effect (lines 13-42): initAuth reads the persisted access
\* token; with one it awaits authApi.getCurrentUser(), without one it goes
\* straight to setIsLoading(false).
InitAuth ==
    /\ Idle
    /\ isLoading
    /\ req[ProbeSlot].st = "new"
    /\ IF localStorage.access_token # NoToken
         THEN /\ req' = [req EXCEPT ![ProbeSlot] = Dispatch(@, localStorage)]
              /\ UNCHANGED isLoading
         ELSE /\ isLoading' = FALSE
              /\ UNCHANGED req
    /\ UNCHANGED <<isRefreshing, failedQueue, localStorage, refresh, response,
                   pc, cur, micro, store, location, nextTok, refreshCalls, lastRefresh>>
    /\ axiosError' = NoError /\ toast' = NoToast /\ UNCHANGED route
    /\ storeCall' = NoCall /\ UNCHANGED <<before, chatVars>>

\* The probe succeeds (lines 20-28, then line 38).
ProbeOk ==
    /\ Idle
    /\ req[ProbeSlot].st = "sent"
    /\ \E user \in {"admin", "plain"} :
          store' = SetPermissions(SetUser(store, user), PermissionsOf(user))
    /\ req' = [req EXCEPT ![ProbeSlot].st = "ok", ![ProbeSlot].auth = NoHeader]
    /\ isLoading' = FALSE
    /\ UNCHANGED <<isRefreshing, failedQueue, localStorage, refresh, response,
                   pc, cur, micro, location, nextTok, refreshCalls, lastRefresh>>
    /\ axiosError' = NoError /\ toast' = NoToast
    /\ route' = Rerender(route, store')
    /\ storeCall' = NoCall /\ UNCHANGED <<before, chatVars>>

\* Mutant of ProbeError: the persisted tokens are kept.
ProbeErrorKeep ==
    /\ pc = "idle"
    /\ micro # <<>>
    /\ Head(micro).k = "cont"
    /\ Head(micro).r = ProbeSlot
    /\ store' = SetPermissions(SetUser(store, "none"), {})
    /\ isLoading' = FALSE
    /\ micro' = Tail(micro)
    /\ UNCHANGED <<isRefreshing, failedQueue, localStorage, req, refresh, response,
                   pc, cur, location, nextTok, refreshCalls, lastRefresh>>
    /\ axiosError' = NoError /\ toast' = NoToast
    /\ route' = Rerender(route, store')
    /\ storeCall' = NoCall /\ UNCHANGED <<before, chatVars>>

\* The probe is rejected: the catch block (lines 29-35), then line 38.
ProbeError ==
    /\ pc = "idle"
    /\ micro # <<>>
    /\ Head(micro).k = "cont"
    /\ Head(micro).r = ProbeSlot
    /\ localStorage' = [access_token |-> NoToken, refresh_token |-> NoToken]
    /\ store' = SetPermissions(SetUser(store, "none"), {})
    /\ isLoading' = FALSE
    /\ micro' = Tail(micro)
    /\ UNCHANGED <<isRefreshing, failedQueue, req, refresh, response,
                   pc, cur, location, nextTok, refreshCalls, lastRefresh>>
    /\ axiosError' = NoError /\ toast' = NoToast
    /\ route' = Rerender(route, store')
    /\ storeCall' = NoCall /\ UNCHANGED <<before, chatVars>>

\* ------------------------------------------------------------ useChatClient

\* StreamChat.connectUser: the user is set at once, the connection opens later.
ConnectUser(c) == [c EXCEPT !.userID = TRUE, !.conn = "connecting"]

\* StreamChat.disconnectUser: the user is cleared at once and the connection
\* is closed; an attempt that was still connecting is superseded.
DisconnectUser(c) ==
    [c EXCEPT !.userID = FALSE, !.conn = "closed",
              !.staleConnects = IF c.conn = "connecting" THEN @ + 1 ELSE @]

\* connect() up to its await (lines 21-40), with user and tokenData present.
Connect(c) ==
    IF c.clientRef /\ c.userID THEN c
    ELSE ConnectUser([c EXCEPT !.isConnecting = TRUE, !.connectionError = FALSE])

\* connect() after a connectUser that resolved (lines 42-45 and 50); a state
\* setter of an unmounted component does nothing.
Connected(c) ==
    [c EXCEPT !.clientRef = TRUE, !.isDisconnectedRef = FALSE,
              !.client = (c.mounted = "yes"), !.isConnecting = FALSE]

\* connect() after a connectUser that rejected (lines 46-50).
ConnectFailed(c) ==
    [c EXCEPT !.connectionError = (c.mounted = "yes"), !.isConnecting = FALSE]

\* disconnect() up to its await (lines 55-58).
Disconnect(c) ==
    IF ~(c.clientRef /\ c.userID) THEN c
    ELSE [DisconnectUser(c) EXCEPT !.isDisconnectedRef = TRUE, !.disconnects = @ + 1]

\* Mutant of ResetIdleTimer: a pending timer is left running.
ResetIdleTimerKeep(c) ==
    IF c.idleTimer # NoTimer THEN c ELSE [c EXCEPT !.idleTimer = IdleTicks]

\* resetIdleTimer() (lines 63-69), and the same two statements at lines 94-98:
\* the pending timer is cleared and a timer of IDLE_TIMEOUT_MS is started.
ResetIdleTimer(c) == [c EXCEPT !.idleTimer = IdleTicks]

\* clearTimeout(idleTimerRef.current)
ClearIdleTimer(c) == [c EXCEPT !.idleTimer = NoTimer]

\* What every action of the chat hook leaves alone.
ChatOnly ==
    /\ UNCHANGED <<isRefreshing, failedQueue, localStorage, req, refresh, response,
                   pc, cur, micro, store, location, nextTok, refreshCalls,
                   lastRefresh, route, isLoading, before>>
    /\ axiosError' = NoError /\ toast' = NoToast /\ storeCall' = NoCall

\* The hook mounts with user and tokenData present; its effects run in order:
\* connect() (line 75), the visibilitychange listener (109), the activity
\* listeners and the initial timer (124-125).
ChatMount ==
    /\ chat.mounted = "no"
    /\ chat' = [ResetIdleTimer(Connect(chat)) EXCEPT !.mounted = "yes"]
    /\ ChatOnly

\* One of the activity events reaches the handler of lines 116-122.  They are
\* user input, which a hidden document does not receive.
Activity(e) ==
    /\ chat.mounted = "yes"
    /\ ~chat.hidden
    /\ e \in Events
    /\ chat' = [(IF chat.isDisconnectedRef THEN Connect(chat)
                 ELSE ResetIdleTimer(chat)) EXCEPT !.sinceActivity = 0]
    /\ ChatOnly

\* visibilitychange with document.hidden (lines 91-98)
Hide ==
    /\ chat.mounted = "yes"
    /\ ~chat.hidden
    /\ chat' = [ResetIdleTimer(chat) EXCEPT !.hidden = TRUE, !.hiddenFor = 0]
    /\ ChatOnly

\* visibilitychange with the document visible again (lines 99-106)
Show ==
    /\ chat.mounted = "yes"
    /\ chat.hidden
    /\ LET c == [ClearIdleTimer(chat) EXCEPT !.hidden = FALSE, !.hiddenFor = 0]
       IN chat' = IF c.isDisconnectedRef THEN Connect(c) ELSE c
    /\ ChatOnly

\* Time passes by one tick.  A timer that is due fires before the next tick,
\* and a call to the chat service settles within the tick it was made in.
Tick ==
    /\ chat.mounted = "yes"
    /\ chat.idleTimer # 0
    /\ chat.conn # "connecting" /\ chat.staleConnects = 0 /\ chat.disconnects = 0
    /\ chat' = [chat EXCEPT
                  !.idleTimer = IF @ > 0 THEN @ - 1 ELSE @,
                  !.sinceActivity = IF @ <= IdleTicks THEN @ + 1 ELSE @,
                  !.hiddenFor = IF chat.hidden /\ @ < IdleTicks THEN @ + 1 ELSE @]
    /\ ChatOnly

\* The idle timer fires: its callback calls disconnect() (lines 65-68, 95-98).
IdleTimeout ==
    /\ chat.idleTimer = 0
    /\ chat' = Disconnect(ClearIdleTimer(chat))
    /\ ChatOnly

\* connectUser resolves for the attempt in progress.
ConnectOk ==
    /\ chat.conn = "connecting"
    /\ chat' = Connected([chat EXCEPT !.conn = "open"])
    /\ ChatOnly

\* connectUser rejects for the attempt in progress; the StreamChat object
\* drops its user when a connection attempt fails.
ConnectFail ==
    /\ chat.conn = "connecting"
    /\ chat' = ConnectFailed([chat EXCEPT !.conn = "closed", !.userID = FALSE])
    /\ ChatOnly

\* The promise of a superseded connectUser settles, either way.
StaleSettle(ok) ==
    /\ chat.staleConnects > 0
    /\ LET c == [chat EXCEPT !.staleConnects = @ - 1]
       IN chat' = IF ok THEN Connected(c) ELSE ConnectFailed(c)
    /\ ChatOnly

\* disconnectUser resolves for a disconnect(): line 59, setClient(null).
DisconnectDone ==
    /\ chat.disconnects > 0
    /\ chat' = [chat EXCEPT !.disconnects = @ - 1,
                            !.client = IF chat.mounted = "yes" THEN FALSE ELSE @]
    /\ ChatOnly

\* The hook unmounts; the cleanups run in order: lines 77-85 (timer cleared,
\* disconnectUser when clientRef.current is set, clientRef.current = null),
\* line 110, lines 127-130.  The component's state is gone.
ChatUnmount ==
    /\ chat.mounted = "yes"
    /\ LET c == ClearIdleTimer(chat)
           d == IF c.clientRef THEN [DisconnectUser(c) EXCEPT !.clientRef = FALSE] ELSE c
       IN chat' = [d EXCEPT !.mounted = "gone", !.client = FALSE,
                            !.isConnecting = FALSE, !.connectionError = FALSE]
    /\ ChatOnly

\* ------------------------------------------------- session store and routes

\* Any caller of the store's setUser (useAuth().setUser).
CallSetUser(user) ==
    /\ Idle
    /\ store' = SetUser(store, user)
    /\ route' = Rerender(route, store')
    /\ storeCall' = [NoCall EXCEPT !.op = "setUser", !.user = user] /\ UNCHANGED <<isLoading, before, chatVars>>
    /\ axiosError' = NoError /\ toast' = NoToast
    /\ UNCHANGED <<isRefreshing, failedQueue, localStorage, req, refresh, response,
                   pc, cur, micro, location, nextTok, refreshCalls, lastRefresh>>

\* Any caller of the store's setPermissions.
CallSetPermissions(permissions) ==
    /\ Idle
    /\ store' = SetPermissions(store, permissions)
    /\ route' = Rerender(route, store')
    /\ storeCall' = [NoCall EXCEPT !.op = "setPermissions", !.permissions = permissions] /\ UNCHANGED <<isLoading, before, chatVars>>
    /\ axiosError' = NoError /\ toast' = NoToast
    /\ UNCHANGED <<isRefreshing, failedQueue, localStorage, req, refresh, response,
                   pc, cur, micro, location, nextTok, refreshCalls, lastRefresh>>

\* Any caller of the store's logout.
CallLogout ==
    /\ Idle
    /\ store' = Logout(store)
    /\ route' = Rerender(route, store')
    /\ storeCall' = [NoCall EXCEPT !.op = "logout"] /\ UNCHANGED <<isLoading, before, chatVars>>
    /\ axiosError' = NoError /\ toast' = NoToast
    /\ UNCHANGED <<isRefreshing, failedQueue, localStorage, req, refresh, response,
                   pc, cur, micro, location, nextTok, refreshCalls, lastRefresh>>

\* The router mounts a ProtectedRoute with the given requirement.  The router
\* is a child of AuthProvider, which renders its children only when isLoading
\* is false (auth-provider.tsx lines 44-52).
RenderRoute(requiredPermissions) ==
    /\ Idle
    /\ ~isLoading
    /\ route' = [requiredPermissions |-> requiredPermissions,
                 renders |-> ProtectedRoute(store, requiredPermissions)]
    /\ storeCall' = NoCall /\ UNCHANGED <<isLoading, before, chatVars>>
    /\ axiosError' = NoError /\ toast' = NoToast
    /\ UNCHANGED <<isRefreshing, failedQueue, localStorage, req, refresh, response,
                   pc, cur, micro, store, location, nextTok, refreshCalls,
                   lastRefresh>>

\* -------------------------------------------------------------------- Next

\* The interceptor pipeline: responses, the refresh handler, promise reactions.
Pipeline ==
    \/ \E r \in Slots : RespondOk(r)
    \/ \E r \in Slots : Enqueue401(r)
    \/ \E r \in Slots : Trigger401(r)
    \/ \E r \in Slots, status \in ErrorStatus : Reject(r, status)
    \/ \E t \in Slots : RefreshOk(t)
    \/ \E t \in Slots : RefreshUnauthorized(t)
    \/ \E t \in Slots, status \in ErrorStatus : RefreshError(t, status)
    \/ Persist
    \/ Drain
    \/ Replay
    \/ CatchDrain
    \/ CatchErase
    \/ CatchNav
    \/ Finally
    \/ MicroResolve
    \/ MicroReject

\* The login and logout flows of the session.
SessionFlow ==
    \/ \E r \in Slots : LoginOk(r)
    \/ \E r \in Slots : MeOk(r)
    \/ \E r \in Slots : LogoutOk(r)
    \/ LoginError
    \/ LogoutError

Next == (\E r \in Data : Send(r)) \/ Pipeline

Spec == Init /\ [][Next]_vars

\* Every network call is eventually answered and the event loop keeps running
\* the handlers and promise reactions that are ready.
FairSpec == Spec /\ WF_vars(Pipeline)

SessionNext ==
    \/ \E r \in SessionData : Send(r)
    \/ StartLogin /\ UNCHANGED before
    \/ StartLogout
    \/ Pipeline
    \/ SessionFlow

SessionSpec == Init /\ [][SessionNext]_vars

\* The process start: AuthProvider's initialisation is the only caller of the
\* client, so no request is ever queued behind another; the router renders
\* its routes once AuthProvider renders its children.
ProviderNext ==
    \/ InitAuth
    \/ ProbeOk
    \/ ProbeError
    \/ \E requiredPermissions \in SUBSET Permissions : RenderRoute(requiredPermissions)
    \/ \E r \in Slots : Trigger401(r)
    \/ \E r \in Slots, status \in ErrorStatus : Reject(r, status)
    \/ \E t \in Slots : RefreshOk(t)
    \/ \E t \in Slots : RefreshUnauthorized(t)
    \/ \E t \in Slots, status \in ErrorStatus : RefreshError(t, status)
    \/ Persist
    \/ Drain
    \/ Replay
    \/ CatchDrain
    \/ CatchErase
    \/ CatchNav
    \/ Finally

ProviderSpec == ProviderInit /\ [][ProviderNext]_vars

\* The calls to the chat service settle.
ChatService ==
    \/ ConnectOk
    \/ ConnectFail
    \/ \E ok \in BOOLEAN : StaleSettle(ok)
    \/ DisconnectDone

\* The chat hook in a tab that stays visible.
ActivityNext ==
    \/ ChatMount
    \/ \E e \in Events : Activity(e)
    \/ Tick
    \/ IdleTimeout
    \/ ChatService
    \/ ChatUnmount

ActivitySpec == Init /\ [][ActivityNext]_vars

\* The chat hook with the tab hidden and shown.
ChatNext ==
    \/ ActivityNext
    \/ Hide
    \/ Show

ChatSpec == Init /\ [][ChatNext]_vars

\* The chat service answers every call, and a timer that is due fires.
FairChatSpec == ChatSpec /\ WF_vars(ChatService) /\ WF_vars(IdleTimeout)

\* A login attempt, with the state it started from on record.
LoginNext ==
    \/ \E r \in SessionData : Send(r)
    \/ StartLogin /\ before' = [localStorage |-> localStorage, store |-> store]
    \/ Pipeline
    \/ \E r \in Slots : LoginOk(r)
    \/ \E r \in Slots : MeOk(r)
    \/ LoginError

LoginSpec == Init /\ [][LoginNext]_vars

\* The session store driven by arbitrary callers, with a protected route mounted.
StoreNext ==
    \/ \E user \in Users : CallSetUser(user)
    \/ \E permissions \in SUBSET Permissions : CallSetPermissions(permissions)
    \/ CallLogout
    \/ \E requiredPermissions \in SUBSET Permissions : RenderRoute(requiredPermissions)

StoreSpec == Init /\ [][StoreNext]_vars

\* ------------------------------------------------------------------ claims

\* The refresh calls that exist: on the wire, parked, or being handled.
ActiveRefresh == {t \in Slots : refresh[t].st # "none"}

\* The requests of callers that wait for a refresh to settle.
Waiting == {r \in Slots : req[r].st \in {"queued", "refreshing"}}

\* How often request r stands in failedQueue or among the entries processQueue
\* has settled and whose reaction has not run yet.
Occurrences(r) ==
    Cardinality({i \in 1..Len(failedQueue) :
                    failedQueue[i].r = r /\ failedQueue[i].call = "orig"})
    + Cardinality({i \in 1..Len(micro) :
                    micro[i].r = r /\ micro[i].call = "orig" /\ micro[i].k # "cont"})

\* C1: at most one refresh call exists at any moment, and whenever one exists
\* isRefreshing is true: the flag was set in the step that issued the call, so
\* a 401 arriving meanwhile is queued instead of starting a second call.
C1_SingleRefresh ==
    /\ Cardinality(ActiveRefresh) <= 1
    /\ ActiveRefresh # {} => isRefreshing
    /\ \A t \in Slots : refresh[t].st \in {"sent", "queued"} =>
                            req[t].st = "refreshing" /\ req[t].retry

\* C1 witness: a refresh call is on the wire and two further 401s were queued.
C1_Witness ==
    /\ \E t \in Slots : refresh[t].st = "sent"
    /\ Len(failedQueue) = 2
    /\ refreshCalls = 1

\* C2 as stated: the requests that receive a qualifying 401, the first of
\* them with no refresh active, cause one refresh call in total, never a second.
C2_Original == refreshCalls <= 1

\* C2 amended: while a refresh is active no refresh call is issued (a 401 is
\* queued); the 401 that finds none active issues exactly one call when a
\* refresh token is persisted; after a 2xx refresh every waiting request is
\* re-sent within the same task, carrying the access token of the refresh
\* response; between tasks nobody waits unless a refresh is active.
C2_Amended ==
    [][/\ isRefreshing => refreshCalls' = refreshCalls
       /\ (~isRefreshing /\ isRefreshing') =>
             refreshCalls' = refreshCalls +
                (IF localStorage.refresh_token # NoToken THEN 1 ELSE 0)
       /\ \A r \in Slots :
             (r \in Waiting /\ req'[r].st = "sent") =>
                 /\ req'[r].auth = lastRefresh'
                 /\ lastRefresh' # NoToken
                 /\ localStorage'.access_token = lastRefresh'
       /\ (pc' = "idle" /\ micro' = <<>> /\ ~isRefreshing') =>
             {r \in Slots : req'[r].st \in {"queued", "refreshing"}} = {}
      ]_vars

\* C2 witness: one refresh call served three 401s; the trigger and the first
\* queued request are already re-sent with the new token, the second follows.
C2_Witness ==
    /\ refreshCalls = 1
    /\ lastRefresh # NoToken
    /\ pc = "idle"
    /\ Len(micro) = 1
    /\ Head(micro).k = "resolve"
    /\ Cardinality({r \in Slots : req[r].st = "sent" /\ req[r].auth = lastRefresh}) = 2

\* C3 as stated: every request that waits on a refresh eventually settles for
\* its caller, whatever the refresh endpoint answers.
C3_Claim ==
    \A r \in Slots : (req[r].st \in {"queued", "refreshing"}) ~> (req[r].st \in {"ok", "failed"})

\* C4 as stated: the 401 of the refresh request is not queued.
C4_Claim ==
    \A i \in 1..Len(failedQueue) : failedQueue[i].call # "refresh"

\* C5 as stated: when the refresh call has failed, every request queued on it
\* is rejected.
C5_Claim ==
    \A r \in Slots :
        (req[r].st = "queued" /\ \E t \in Slots : refresh[t].st \in {"queued", "failed"})
            ~> (req[r].st = "failed" /\ req[r].err = "refresh")

C7_QueueDrained ==
    /\ failedQueue # <<>> => isRefreshing
    /\ pc \in {"replay", "erase", "nav", "finally"} => failedQueue = <<>>
    /\ pc = "replay" => \A i \in 1..Len(micro) : micro[i].k = "resolve"
    /\ pc = "erase" => \A i \in 1..Len(micro) : micro[i].k = "reject"
    /\ \A r \in Slots : Occurrences(r) = IF req[r].st = "queued" THEN 1 ELSE 0

\* C7 witness: two entries were drained and the flag is still set.
C7_Witness ==
    /\ pc = "finally"
    /\ isRefreshing
    /\ Len(micro) = 2
    /\ failedQueue = <<>>

\* C8 as stated: isRefreshing never stays true forever.
C8_Claim == isRefreshing ~> ~isRefreshing

\* C9: after a 2xx refresh the new access token is in localStorage before
\* processQueue runs, and from then on every request put on the wire (replay
\* or new) carries the token persisted at that moment, never one older than
\* the refreshed token.
C9_FreshToken ==
    [][/\ pc' \in {"drain", "replay"} =>
             /\ localStorage'.access_token = response'.access_token
             /\ response'.access_token = lastRefresh'
             /\ lastRefresh' # NoToken
       /\ \A r \in Slots :
             (req[r].st # "sent" /\ req'[r].st = "sent") =>
                 /\ req'[r].auth # NoHeader => req'[r].auth >= lastRefresh'
                 /\ localStorage'.access_token # NoToken =>
                        req'[r].auth = localStorage'.access_token
      ]_vars

\* C9 witness: the refreshed token is persisted while two requests, sent with
\* the token of the earlier session, still stand unresolved in the queue.
C9_Witness ==
    /\ pc = "drain"
    /\ Len(failedQueue) = 2
    /\ localStorage.access_token = response.access_token
    /\ localStorage.access_token # FirstTok
    /\ \A i \in 1..Len(failedQueue) : req[failedQueue[i].r].auth = FirstTok

\* C10: a response to a request already marked retried never starts a refresh
\* call, never queues the request and never touches isRefreshing: the request
\* settles; and no request issues more than one refresh call.
C10_RetryOnce ==
    [][/\ \A r \in Slots :
             (req[r].retry /\ req[r].st = "sent" /\ req'[r].st # "sent") =>
                 /\ req'[r].st \in {"ok", "failed"}
                 /\ refreshCalls' = refreshCalls
                 /\ failedQueue' = failedQueue
                 /\ isRefreshing' = isRefreshing
       /\ \A r \in Slots : req'[r].calls <= 1
      ]_vars

\* C10 witness: the only request sent was answered 401, refreshed once,
\* replayed, answered 401 again (no toast, no navigation) and rejected.
C10_Witness ==
    \E r \in Slots :
        /\ req[r].retry
        /\ req[r].calls = 1
        /\ req[r].st = "failed"
        /\ req[r].err = "response"
        /\ refreshCalls = 1
        /\ toast = NoToast
        /\ location = "/"
        /\ \A q \in Slots \ {r} : req[q].st = "new"

\* C11 as stated: a request to an auth endpoint is never handed to the refresh
\* coordinator: it is neither the trigger of a refresh nor queued, and is
\* never marked retried.
C11_Claim ==
    \A r \in Slots :
        IsAuthEndpoint(req[r].url) =>
            /\ req[r].st \notin {"queued", "refreshing"}
            /\ ~req[r].retry

\* C12: a qualifying 401 that finds no refresh active and no refresh token
\* persisted issues no refresh call and enters the catch block at once; when
\* its handler ends the queue is empty, both tokens are erased, the client is
\* at /login, isRefreshing is false and the request is rejected with the
\* error 'No refresh token available'.
C12_NoRefreshToken ==
    [][/\ \A r \in Slots :
             (/\ req[r].st = "sent"
              /\ req'[r].st = "refreshing"
              /\ localStorage.refresh_token = NoToken) =>
                 /\ refreshCalls' = refreshCalls
                 /\ refresh' = refresh
                 /\ pc' = "catch"
                 /\ cur' = r
       /\ (pc # "idle" /\ refresh[cur].st = "none") =>
             /\ refreshCalls' = refreshCalls
             /\ \A t \in Slots : refresh'[t].st # "sent"
             /\ pc' = "idle" =>
                   /\ failedQueue' = <<>>
                   /\ localStorage' = [access_token |-> NoToken, refresh_token |-> NoToken]
                   /\ location' = "/login"
                   /\ ~isRefreshing'
                   /\ req'[cur].st = "failed"
                   /\ req'[cur].err = "No refresh token available"
      ]_vars

\* C12 witness: the catch block has run for a 401 that found no refresh token
\* while an access token was persisted; no refresh call was ever issued.
C12_Witness ==
    /\ pc = "finally"
    /\ refresh[cur].st = "none"
    /\ req[cur].st = "refreshing"
    /\ req[cur].auth = FirstTok
    /\ localStorage = [access_token |-> NoToken, refresh_token |-> NoToken]
    /\ location = "/login"
    /\ refreshCalls = 0

\* C13: after a 2xx refresh processQueue leaves exactly one pending resolution
\* per queued request; the reaction of a queued request re-sends that request
\* alone, with the refreshed token, and consumes its only entry; the trigger is
\* re-sent by line 122 alone, is no member of the queue, and is not sent again
\* when its handler ends.
C13_ReplayedOnce ==
    [][/\ \A r \in Slots :
             (req[r].st = "queued" /\ req'[r].st = "sent") =>
                 /\ Occurrences(r) = 1
                 /\ Occurrences(r)' = 0
                 /\ lastRefresh # NoToken
                 /\ req'[r].auth = lastRefresh
                 /\ \A q \in Slots \ {r} : req'[q] = req[q]
       /\ \A r \in Slots :
             (req[r].st = "refreshing" /\ req'[r].st = "sent") =>
                 /\ pc = "replay" /\ cur = r /\ pc' = "finally"
                 /\ Occurrences(r) = 0
                 /\ req'[r].auth = lastRefresh
                 /\ \A q \in Slots \ {r} : req'[q] = req[q]
       /\ pc = "drain" =>
             \A r \in Slots :
                 req[r].st = "queued" =>
                     Cardinality({i \in 1..Len(micro') :
                                    micro'[i].r = r /\ micro'[i].k = "resolve"}) = 1
       /\ (pc = "finally" /\ req[cur].st = "sent") => req' = req
      ]_vars

\* C13 witness: within the task of a 2xx refresh the trigger and one queued
\* request are re-sent with the refreshed token, the second queued request
\* follows.
C13_Witness ==
    /\ pc = "idle"
    /\ ~isRefreshing
    /\ Len(micro) = 1
    /\ req[Head(micro).r].st = "queued"
    /\ \E t \in Slots, q \in Slots :
          /\ req[t].retry /\ req[t].calls = 1
          /\ req[t].st = "sent" /\ req[t].auth = lastRefresh
          /\ ~req[q].retry
          /\ req[q].st = "sent" /\ req[q].auth = lastRefresh
    /\ lastRefresh # FirstTok

\* C14: while a request stays queued no refresh call is issued and no refresh
\* starts (it is settled by the refresh that was active when it was queued);
\* entries are appended at the end of failedQueue, processQueue settles them
\* in queue order, and the reactions run in that order.
C14_SameRefreshInOrder ==
    [][/\ \A r \in Slots :
             (req[r].st = "queued" /\ req'[r].st = "queued") =>
                 /\ refreshCalls' = refreshCalls
                 /\ isRefreshing' => isRefreshing
       /\ Len(failedQueue') > Len(failedQueue) =>
             SubSeq(failedQueue', 1, Len(failedQueue)) = failedQueue
       /\ (failedQueue # <<>> /\ failedQueue' = <<>>) =>
             /\ Len(micro') = Len(micro) + Len(failedQueue)
             /\ SubSeq(micro', 1, Len(micro)) = micro
             /\ \A i \in 1..Len(failedQueue) :
                   /\ micro'[Len(micro) + i].r = failedQueue[i].r
                   /\ micro'[Len(micro) + i].call = failedQueue[i].call
       /\ \A r \in Slots :
             (req[r].st = "queued" /\ req'[r].st # "queued") =>
                 /\ micro # <<>>
                 /\ Head(micro).r = r
                 /\ Head(micro).call = "orig"
      ]_vars

\* C14 witness: processQueue(null) has settled two queued requests.
C14_Witness ==
    /\ pc = "replay"
    /\ failedQueue = <<>>
    /\ Len(micro) = 2
    /\ micro[1].r # micro[2].r
    /\ \A i \in 1..2 : micro[i].k = "resolve" /\ req[micro[i].r].st = "queued"

\* C15: the handler of a 403 response issues no refresh call, queues nothing,
\* leaves isRefreshing and the persisted tokens as they are, assigns
\* /unauthorized to the location and rejects the request.
C15_Forbidden ==
    [][axiosError'.status = 403 =>
          /\ refreshCalls' = refreshCalls
          /\ failedQueue' = failedQueue
          /\ isRefreshing' = isRefreshing
          /\ localStorage' = localStorage
          /\ location' = "/unauthorized"
          /\ axiosError'.call = "orig" =>
                /\ req'[axiosError'.r].st = "failed"
                /\ req'[axiosError'.r].err = "response"
                /\ req'[axiosError'.r].calls = req[axiosError'.r].calls
          /\ axiosError'.call = "refresh" =>
                /\ refresh'[axiosError'.r].st = "failed"
                /\ req' = req
      ]_vars

\* C15 witness: a request was answered 403 while tokens are persisted.
C15_Witness ==
    /\ axiosError.status = 403
    /\ axiosError.call = "orig"
    /\ req[axiosError.r].st = "failed"
    /\ location = "/unauthorized"
    /\ refreshCalls = 0
    /\ ~isRefreshing
    /\ localStorage = [access_token |-> FirstTok, refresh_token |-> RefreshTok]

\* C16 as stated: the handler of a 401 or 403 response shows no toast.
C16_Claim ==
    axiosError.status \in {401, 403} => toast = NoToast

LoggedOut ==
    /\ req[LogoutSlot].st \in {"ok", "failed"}
    /\ \A i \in 1..Len(micro) : micro[i].k = "cont" => micro[i].r # LogoutSlot
    /\ req[LoginSlot].st = "new"

\* C18 as stated: after logout, before a new login, the store is cleared, no
\* token is persisted and every request put on the wire has no Authorization
\* header.
C18_Claim ==
    [][LoggedOut' =>
          /\ store' = [user |-> "none", permissions |-> {}, isAuthenticated |-> FALSE]
          /\ localStorage' = [access_token |-> NoToken, refresh_token |-> NoToken]
          /\ \A r \in Slots :
                (req[r].st # "sent" /\ req'[r].st = "sent") => req'[r].auth = NoHeader
      ]_vars

\* C19: a request put on the wire carries the access token persisted at that
\* moment when there is one, and otherwise the header its config already had
\* (none for a new request, '' for the refresh call); nothing else of the
\* request changes and it is always sent.
C19_RequestInterceptor ==
    [][/\ \A r \in Slots :
             (req[r].st # "sent" /\ req'[r].st = "sent") =>
                 req'[r] = [req[r] EXCEPT
                               !.st = "sent",
                               !.auth = IF localStorage.access_token # NoToken
                                          THEN localStorage.access_token
                                          ELSE req[r].auth]
       /\ \A t \in Slots :
             (refresh[t].st = "none" /\ refresh'[t].st = "sent") =>
                 refresh'[t].auth = IF localStorage.access_token # NoToken
                                      THEN localStorage.access_token
                                      ELSE EmptyHeader
      ]_vars

\* C19 witness: one request is on the wire with the token persisted when it
\* was sent, another was sent after the tokens were erased and has no header.
C19_Witness ==
    /\ localStorage.access_token = NoToken
    /\ \E r \in Slots, q \in Slots :
          /\ req[r].st = "sent" /\ req[r].auth = NoHeader
          /\ req[q].st = "sent" /\ req[q].auth = FirstTok

\* C20: a mounted ProtectedRoute navigates to /login when the session is not
\* authenticated, whatever the permissions; to /unauthorized when it is
\* authenticated and some required permission is missing; and renders its
\* children otherwise, so always for an empty requirement.
C20_ProtectedRoute ==
    route.renders # "none" =>
        /\ ~store.isAuthenticated => route.renders = "/login"
        /\ (store.isAuthenticated
              /\ \E p \in route.requiredPermissions : p \notin store.permissions)
                 => route.renders = "/unauthorized"
        /\ (store.isAuthenticated
              /\ \A p \in route.requiredPermissions : p \in store.permissions)
                 => route.renders = "children"

\* C20 witness: an authenticated session lacks one of two required permissions.
C20_Witness ==
    /\ store.isAuthenticated
    /\ store.permissions = {"users:read"}
    /\ route.requiredPermissions = {"users:read", "users:write"}
    /\ route.renders = "/unauthorized"

\* C21 as stated: the refresh call on the wire carries an empty Authorization
\* header, whatever is persisted.
C21_Claim ==
    \A t \in Slots : refresh[t].st = "sent" => refresh[t].auth = EmptyHeader

\* The requests whose _retry is still unset and that have not settled: each
\* may still start one refresh.
Triggers == {r \in Slots : ~req[r].retry /\ req[r].st \notin {"ok", "failed"}}

\* The requests in state st.
InState(st) == Cardinality({r \in Slots : req[r].st = st})

\* A bound on the steps the pipeline can still take for the requests issued:
\* the rounds that can still start (one per trigger left), the work left for
\* every request before the next round starts, and the steps left for the
\* refresh call, the running handler and the pending reactions.
Measure ==
    Cardinality(Triggers) * (8 * Cardinality(Slots) + 16)
    + 7 * InState("refreshing")
    + (IF isRefreshing THEN 6 ELSE 2) * InState("sent")
    + 3 * InState("queued")
    + 10 * Cardinality({t \in Slots : refresh[t].st = "sent"})
    + (CASE pc \in {"persist", "catch"} -> 8
         [] pc \in {"drain", "erase"} -> 6
         [] pc \in {"replay", "nav"} -> 4
         [] pc = "finally" -> 2
         [] OTHER -> 0)
    + 2 * Len(failedQueue)
    + Len(micro)

\* C22: no request issues more than one refresh call, the refresh calls issued
\* are as many as the requests that issued one and so at most the requests
\* sent, and every step of the pipeline (everything but the sending of a new
\* request) lowers a natural-valued measure: the retries end.
C22_BoundedRefresh ==
    [][/\ \A r \in Slots : req'[r].calls <= 1
       /\ refreshCalls' = Cardinality({r \in Slots : req'[r].calls = 1})
       /\ refreshCalls' <= Cardinality({r \in Slots : req'[r].st # "new"})
       /\ Measure' >= 0
       /\ (\A r \in Slots : req[r].st = "new" => req'[r].st = "new") =>
             Measure' < Measure
      ]_vars

\* C22 witness: two requests have each issued one refresh call; the second
\* went out with the token of the first refresh, was answered 401 again and
\* its refresh call is on the wire while the first request is still replayed.
C22_Witness ==
    /\ refreshCalls = 2
    /\ \E t \in Slots, q \in Slots :
          /\ req[t].retry /\ req[t].calls = 1
          /\ req[t].st = "sent" /\ req[t].auth = lastRefresh
          /\ req[q].retry /\ req[q].calls = 1
          /\ req[q].st = "refreshing" /\ req[q].auth = lastRefresh
          /\ refresh[q].st = "sent"
    /\ lastRefresh # NoToken

\* C23 as stated: from the end of the logout until a login starts no token is
\* persisted, also when a refresh call in flight at the logout succeeds later.
C23_Claim ==
    LoggedOut => localStorage = [access_token |-> NoToken, refresh_token |-> NoToken]

\* C25: in every state of the Session Store isAuthenticated is true exactly
\* when user is non-null; setUser changes user (and with it isAuthenticated)
\* and nothing else, setPermissions changes only the permission set, and
\* logout leaves user null, permissions empty and isAuthenticated false.
C25_SessionStore ==
    [][/\ store.isAuthenticated = (store.user # "none")
       /\ store'.isAuthenticated = (store'.user # "none")
       /\ storeCall'.op = "setUser" =>
             /\ store'.user = storeCall'.user
             /\ store'.permissions = store.permissions
       /\ storeCall'.op = "setPermissions" =>
             /\ store'.permissions = storeCall'.permissions
             /\ store'.user = store.user
             /\ store'.isAuthenticated = store.isAuthenticated
       /\ storeCall'.op = "logout" =>
             /\ store'.user = "none"
             /\ store'.permissions = {}
             /\ ~store'.isAuthenticated
      ]_vars

\* C25 witness: setPermissions has just replaced the permissions of an
\* authenticated session.
C25_Witness ==
    /\ storeCall.op = "setPermissions"
    /\ storeCall.permissions = {"users:write"}
    /\ store = [user |-> "plain", permissions |-> {"users:write"},
                isAuthenticated |-> TRUE]

\* The login mutation has failed and its onError has run.
LoginFailed ==
    /\ req[LoginSlot].st = "failed"
    /\ \A i \in 1..Len(micro) : micro[i].k = "cont" => micro[i].r # LoginSlot

\* C26 as stated: when a login attempt has failed, the persisted tokens and
\* the Session Store are what they were when the attempt started.
C26_Claim ==
    LoginFailed => /\ localStorage = before.localStorage
                   /\ store = before.store

\* The probe of AuthProvider is neither in flight nor waiting for its catch block.
ProbeSettled ==
    /\ req[ProbeSlot].st \in {"new", "ok", "failed"}
    /\ \A i \in 1..Len(micro) : micro[i].k = "cont" => micro[i].r # ProbeSlot

\* C24: the children are rendered (isLoading is false, a route is mounted)
\* only when initAuth has come to its end; initAuth sends the probe, with the persisted access token,
\* exactly when one is persisted; without one it ends at once, no probe is
\* ever made and the store stays unauthenticated; when it ends after a failed
\* probe both tokens are erased and the store has no user and no permissions;
\* when it ends after a successful probe the store is authenticated.
C24_AuthProvider ==
    [][/\ ~isLoading' => ProbeSettled'
       /\ route'.renders # "none" => ~isLoading' /\ ProbeSettled'
       /\ (isLoading /\ req[ProbeSlot].st = "new" /\ localStorage.access_token # NoToken
             /\ <<req[ProbeSlot], isLoading>>' # <<req[ProbeSlot], isLoading>>) =>
             /\ req'[ProbeSlot].st = "sent"
             /\ req'[ProbeSlot].auth = localStorage.access_token
             /\ isLoading'
       /\ (isLoading /\ req[ProbeSlot].st = "new" /\ localStorage.access_token = NoToken) =>
             /\ req'[ProbeSlot].st = "new"
             /\ store' = store /\ ~store'.isAuthenticated
             /\ localStorage' = localStorage
       /\ (~isLoading /\ req[ProbeSlot].st = "new") => req'[ProbeSlot].st = "new"
       /\ (isLoading /\ ~isLoading' /\ req'[ProbeSlot].st = "failed") =>
             /\ localStorage' = [access_token |-> NoToken, refresh_token |-> NoToken]
             /\ store' = [user |-> "none", permissions |-> {}, isAuthenticated |-> FALSE]
       /\ (isLoading /\ ~isLoading' /\ req'[ProbeSlot].st = "ok") =>
             store'.isAuthenticated
       /\ ~isLoading => ~isLoading'
      ]_vars

\* C24 witness: the probe was sent with the persisted token and answered 500;
\* initialisation has ended with both tokens erased and nobody signed in.
C24_Witness ==
    /\ ~isLoading
    /\ req[ProbeSlot].st = "failed"
    /\ req[ProbeSlot].err = "response"
    /\ ~req[ProbeSlot].retry
    /\ localStorage = [access_token |-> NoToken, refresh_token |-> NoToken]
    /\ store = [user |-> "none", permissions |-> {}, isAuthenticated |-> FALSE]
    /\ refreshCalls = 0

\* C27 as stated: a mounted client is never connected with more than the idle
\* timeout gone by since the last activity event (the tab staying visible).
C27_Claim ==
    (chat.mounted = "yes" /\ chat.conn = "open") => chat.sinceActivity <= IdleTicks

\* A reconnect is in progress: disconnect() has marked the client
\* disconnected and connect() awaits connectUser.
Reconnecting ==
    chat.mounted = "yes" /\ chat.isDisconnectedRef /\ chat.conn = "connecting"

\* C28 as stated: a reconnect that was started ends with the client connected
\* (unless the hook unmounts meanwhile).
C28_Original ==
    Reconnecting ~> (chat.conn = "open" \/ chat.mounted = "gone")

\* C28 amended: while the tab is hidden the client loses its connection only
\* when the tab has been hidden for the whole idle timeout; when the tab
\* becomes visible no idle timer is left pending and, if disconnect() had
\* marked the client disconnected, a connect is in progress; a reconnect in
\* progress ends with the client connected or, when connectUser rejects, with
\* connectionError set and the client still disconnected (or with the unmount).
C28_Amended ==
    /\ [][/\ (chat.hidden /\ chat'.mounted = "yes"
                /\ chat.conn = "open" /\ chat'.conn # "open") =>
                chat.hiddenFor = IdleTicks
          /\ (chat.hidden /\ ~chat'.hidden) =>
                /\ chat'.idleTimer = NoTimer
                /\ chat.isDisconnectedRef => chat'.conn = "connecting"
          /\ (Reconnecting /\ chat'.mounted = "yes" /\ chat'.conn = "closed") =>
                chat'.connectionError /\ chat'.isDisconnectedRef
         ]_vars
    /\ Reconnecting ~>
          (chat.conn = "open" \/ chat.connectionError \/ chat.mounted = "gone")

\* C28 witness: the tab became visible after the hidden timeout had
\* disconnected the client: the timer is cancelled and a reconnect is in
\* progress (no activity event started it).
C28_Witness ==
    /\ Reconnecting
    /\ ~chat.hidden
    /\ chat.sinceActivity > IdleTicks
    /\ chat.idleTimer = NoTimer
    /\ chat.disconnects = 0

\* C29 as stated: once the hook is unmounted no idle timer is pending and the
\* chat connection is not open.
C29_Claim ==
    chat.mounted = "gone" => chat.idleTimer = NoTimer /\ chat.conn # "open"

\* C30 as stated: whenever the client is connected and the tab is visible an
\* idle timer is pending.
C30_Claim ==
    (chat.mounted = "yes" /\ chat.conn = "open" /\ ~chat.hidden) =>
        chat.idleTimer # NoTimer

=============================================================================
